---- MODULE Spec2Model ----
(***************************************************************************)
(* MKV QuickPlay (cross-platform): the App Coordinator (app.py), the       *)
(* player process controller (core/mpv_launcher.py), the hotkey listener   *)
(* (core/hotkey_manager.py), the tray presenter (core/tray_controller.py)  *)
(* and the video classifier (core/video_utils.py) as one state machine.    *)
(*                                                                         *)
(* Threads.  Every hotkey signal runs on its own daemon thread             *)
(* (hotkey_manager.py:127-139), every successful play() starts an          *)
(* exit-watch thread (mpv_launcher.py:116), every close starts a           *)
(* guard-clearing thread (app.py:133) and the tray menu callbacks run on   *)
(* the main thread (app.py:160).  No lock is taken anywhere, so one step   *)
(* of the model is one read or write of a shared attribute.                *)
(*                                                                         *)
(* Spec runs the signal handlers one after the other and interleaves them  *)
(* with the exit-watch threads, the guard-clearing threads and the exits   *)
(* of the players; RaceSpec lets close handlers overlap other handlers and *)
(* QuitSpec lets Quit be chosen while a hotkey handler runs.  UtilSpec     *)
(* calls the functions of core/video_utils.py on the entries of a folder,  *)
(* ClipSpec runs the clipboard probe of platform/linux.py.  PlaySpec lets   *)
(* toggle handlers overlap (key repeat of the hotkey), ListenSpec presses  *)
(* and releases every key, and GuardSpec is the run of hotkey and Escape   *)
(* signals in which the guard-clearing threads are scheduled fairly.       *)
(***************************************************************************)
EXTENDS Integers, Sequences, FiniteSets, TLC

(* ------------------------------ bounds --------------------------------- *)
\* handler threads running at the same time where key repeat lets them
\* overlap (RaceSpec); under Spec the handlers run one after the other
MaxWorkers == 2
\* player processes launched in one run of the application
MaxProcs == 2
\* guard-clearing threads sleeping at the same time
MaxTimers == 2
\* video files of the folder being browsed
NFiles == 2

(* ------------------------------ paths ---------------------------------- *)
\* "no path": Python's None
NoFile == 0
\* a path is identified by a number; the videos the user can select
VideoPaths == 1 .. NFiles
\* one more selectable path, a file that is not a video
TextPath == NFiles + 1
AllPaths == 1 .. (NFiles + 1)

\* what else the folder can hold, as file names (sequences of character
\* codes) and kinds:  "u.mkv" a sub-folder,  "V.Ts" a video,
\* ".mkv" a hidden file without a suffix
ExtraEntries ==
    << [name |-> << 117, 46, 109, 107, 118 >>, file |-> FALSE],
       [name |-> << 86, 46, 84, 115 >>, file |-> TRUE],
       [name |-> << 46, 109, 107, 118 >>, file |-> TRUE] >>

\* every entry the folder can hold
DirPaths == 1 .. (NFiles + 1 + Len(ExtraEntries))

\* the file name of a path: odd paths "a.MKV", "c.MKV", .. (lower-case
\* stem, upper-case suffix), even paths "B.mp4", "D.mp4", .. (upper-case
\* stem), the text file with the suffix ".txt".  All paths are in one
\* folder, so two full paths compare as their file names do.
PathName(p) ==
    IF p > NFiles + 1 THEN ExtraEntries[p - (NFiles + 1)].name
    ELSE << (IF p % 2 = 1 THEN 96 ELSE 64) + p >> \o
         (IF p = TextPath THEN << 46, 116, 120, 116 >>
          ELSE IF p % 2 = 1 THEN << 46, 77, 75, 86 >>
          ELSE << 46, 109, 112, 52 >>)

\* Path.is_file()
is_file(p) == IF p > NFiles + 1 THEN ExtraEntries[p - (NFiles + 1)].file ELSE TRUE

\* '.mkv', '.avi', '.webm', '.mp4', '.m4v', '.mov', '.wmv', '.flv', '.ts',
\* '.mts', '.m2ts'
SUPPORTED_EXTENSIONS ==
    { << 46, 109, 107, 118 >>, << 46, 97, 118, 105 >>,
      << 46, 119, 101, 98, 109 >>, << 46, 109, 112, 52 >>,
      << 46, 109, 52, 118 >>, << 46, 109, 111, 118 >>,
      << 46, 119, 109, 118 >>, << 46, 102, 108, 118 >>,
      << 46, 116, 115 >>, << 46, 109, 116, 115 >>,
      << 46, 109, 50, 116, 115 >> }

\* str.lower(): the letters A-Z (65-90) become a-z (97-122)
Lower(s) == [k \in 1 .. Len(s) |-> IF s[k] \in 65 .. 90 THEN s[k] + 32 ELSE s[k]]

\* text as a key: a < b for strings is the order of their character codes
LexLeq(a, b) ==
    \/ \E k \in 1 .. Len(a) :
           /\ k <= Len(b)
           /\ \A j \in 1 .. (k - 1) : a[j] = b[j]
           /\ a[k] < b[k]
    \/ /\ Len(a) <= Len(b)
       /\ \A j \in 1 .. Len(a) : a[j] = b[j]

\* str.rfind('.'), counted from 1; 0 when there is no dot (code 46)
LastDot(name) ==
    IF \E k \in 1 .. Len(name) : name[k] = 46
    THEN CHOOSE k \in 1 .. Len(name) :
             /\ name[k] = 46
             /\ \A j \in (k + 1) .. Len(name) : name[j] # 46
    ELSE 0

\* Path(path).suffix: the file name from its last dot on, empty when the
\* name has no dot, begins with its only dot or ends with a dot
Suffix(name) ==
    IF LastDot(name) > 1 /\ LastDot(name) < Len(name)
    THEN SubSeq(name, LastDot(name), Len(name))
    ELSE << >>

\* a .suffix.lower() that keeps the case
is_video_file_cased(path) == Suffix(path) \in SUPPORTED_EXTENSIONS

\* path: the file name of the path
is_video_file(path) == Lower(Suffix(path)) \in SUPPORTED_EXTENSIONS

(* --------------------------- sibling navigation ------------------------ *)
\* sorted(videos, key=...): key[x] is the key of x
RECURSIVE SortedSeq(_, _)
SortedSeq(S, key) ==
    IF S = {} THEN << >>
    ELSE LET m == CHOOSE x \in S : \A y \in S : LexLeq(key[x], key[y])
         IN  << m >> \o SortedSeq(S \ {m}, key)

\* a listing sorted by the paths as they are written
get_video_files_in_directory_cased(isDir, entries) ==
    IF ~isDir THEN << >>
    ELSE LET videos == {e \in entries :
                          is_file(e) /\ Lower(Suffix(PathName(e))) \in SUPPORTED_EXTENSIONS}
         IN  SortedSeq(videos, [x \in videos |-> PathName(x)])

\* isDir: dir_path.is_dir(); entries: what dir_path.iterdir() yields
get_video_files_in_directory(isDir, entries) ==
    IF ~isDir THEN << >>
    ELSE LET videos == {e \in entries :
                          is_file(e) /\ Lower(Suffix(PathName(e))) \in SUPPORTED_EXTENSIONS}
         IN  SortedSeq(videos, [x \in videos |-> Lower(PathName(x))])

\* exists: Path(current_file).exists(); entries: the entries of its folder
get_sibling_videos(exists, entries) ==
    IF ~exists THEN << >> ELSE get_video_files_in_directory(TRUE, entries)

\* list.index(x), counted from 1
IndexOf(s, x) == CHOOSE i \in 1 .. Len(s) : s[i] = x

\* a get_next_video that stops at the last sibling
get_next_video_nowrap(c, exists, entries) ==
    LET siblings == get_sibling_videos(exists, entries)
    IN  IF siblings = << >> THEN NoFile
        ELSE IF \E i \in 1 .. Len(siblings) : siblings[i] = c
             THEN IF IndexOf(siblings, c) = Len(siblings) THEN c
                  ELSE siblings[IndexOf(siblings, c) + 1]
             ELSE siblings[1]

get_next_video(c, exists, entries) ==
    LET siblings == get_sibling_videos(exists, entries)
    IN  IF siblings = << >> THEN NoFile
        ELSE IF \E i \in 1 .. Len(siblings) : siblings[i] = c
             THEN siblings[(IndexOf(siblings, c) % Len(siblings)) + 1]
             ELSE siblings[1]

get_previous_video(c, exists, entries) ==
    LET siblings == get_sibling_videos(exists, entries)
    IN  IF siblings = << >> THEN NoFile
        ELSE IF \E i \in 1 .. Len(siblings) : siblings[i] = c
             THEN siblings[((IndexOf(siblings, c) - 2) % Len(siblings)) + 1]
             ELSE siblings[Len(siblings)]

(* --------------------------- selection probe --------------------------- *)
\* the selections the file manager can report: up to two selected paths
Selections ==
    {<< >>} \cup {<< a >> : a \in AllPaths}
            \cup {<< a, b >> : a \in AllPaths, b \in AllPaths}

\* windows.py:38-54, linux.py:80-84: the query of the foreground window
\* fails (a missing module, an exception, a command that fails) or tells
\* whether the window is the file manager's; a failure is "not active"
is_file_manager_active(queryOk, fmWindow) == queryOk /\ fmWindow

\* windows.py:56-68, linux.py:160-173: the selected paths, or [] when the
\* probe is missing or raises
get_selected_files(probeOk, selection) == IF probeOk THEN selection ELSE << >>

\* a get_selected_file that does not ask for the active window
get_selected_file_anywhere(fmActive, sel) ==
    IF \E i \in 1 .. Len(sel) : is_video_file(PathName(sel[i]))
    THEN sel[CHOOSE i \in 1 .. Len(sel) :
               /\ is_video_file(PathName(sel[i]))
               /\ \A j \in 1 .. (i - 1) : ~is_video_file(PathName(sel[j]))]
    ELSE NoFile

\* first selected video, or None when the file manager is not the active
\* window or no selected path is a video
get_selected_file(fmActive, sel) ==
    IF ~fmActive THEN NoFile
    ELSE IF \E i \in 1 .. Len(sel) : is_video_file(PathName(sel[i]))
         THEN sel[CHOOSE i \in 1 .. Len(sel) :
                    /\ is_video_file(PathName(sel[i]))
                    /\ \A j \in 1 .. (i - 1) : ~is_video_file(PathName(sel[j]))]
         ELSE NoFile

(* ------------------------------ state ---------------------------------- *)
VARIABLES
    th,           \* th[0]: the main (tray) thread; th[1..]: hotkey worker threads
    mon,          \* mon[p]: the exit-watch thread started by the play() that launched p
    proc,         \* proc[p]: the p-th player process launched
    lprocess,     \* MPVLauncher._process (0: None)
    lfile,        \* MPVLauncher._current_file
    cur,          \* MKVQuickPlayApp._current_file
    justClosed,   \* MKVQuickPlayApp._just_closed
    timers,       \* clear_flag threads still sleeping
    trayActive,   \* TrayController._is_active
    icon,         \* TrayController._icon: "none", "running"
    iconActive,   \* the colour of the icon image shown (TRUE: blue)
    hkActive,     \* HotkeyManager._is_preview_active
    ctrl,         \* HotkeyManager._ctrl_pressed
    listener,     \* HotkeyManager._listener is not None
    selMgr,       \* MKVQuickPlayApp._selection_manager is not None
    solo,         \* history: the thread that has run alone since it started
    snap,         \* history: the state that thread started in
    last,         \* history: the handler that ran alone and returned in the last step
    call,         \* a call of a video_utils function: the function and its arguments
    result,       \* what that call returned
    desk,         \* the desktop of a selection probe: file system and file manager
    clip,         \* the content of the clipboard
    probe         \* LinuxSelectionManager._get_selection_via_clipboard in progress

vars == << th, mon, proc, lprocess, lfile, cur, justClosed, timers, trayActive,
           icon, iconActive, hkActive, ctrl, listener, selMgr, solo, snap, last,
           call, result, desk, clip, probe >>

\* the state of the coordinator and of the objects it owns
appVars == << th, mon, proc, lprocess, lfile, cur, justClosed, timers,
              trayActive, icon, iconActive, hkActive, ctrl, listener, selMgr,
              solo, snap, last >>
\* the state of a video_utils call and of a clipboard probe, which the
\* steps of the coordinator leave alone
libVars == << call, result, desk, clip, probe >>

Threads == 0 .. MaxWorkers
Workers == 1 .. MaxWorkers
Procs == 1 .. MaxProcs

\* a thread: its position, the signal it handles, its local variables
\* (f: filepath, sp: stop()'s process, ret: where stop() returns to) and
\* history (newp: the process it launched, prior: the process that was
\* playing when it entered play())
Idle == [pc |-> "idle", kind |-> "none", f |-> NoFile, sp |-> 0, ret |-> "none",
         newp |-> 0, prior |-> 0]

NoMon == [pc |-> "none", watch |-> 0]

\* a player process: sig is the last signal stop() sent it, stopped says
\* that a stop() untracked it, closes counts the on_close calls made for it
NoProc == [st |-> "unborn", sig |-> "none", stopped |-> FALSE, closes |-> 0]

\* a process that has exited and whose Popen object is referenced no more
Gone == [st |-> "gone", sig |-> "none", stopped |-> FALSE, closes |-> 0]

NoTid == << "none", 0 >>
WTid(i) == << "thread", i >>
MTid(p) == << "monitor", p >>

NoSnap == [cur |-> NoFile, tray |-> FALSE, iconA |-> FALSE, hk |-> FALSE,
           lp |-> 0, lf |-> NoFile, playing |-> FALSE, jc |-> FALSE,
           timers |-> 0]

NoLast == [who |-> NoTid, kind |-> "none", res |-> "none", f |-> NoFile,
           newp |-> 0, prior |-> 0, snap |-> NoSnap]

\* MPVLauncher.is_playing (mpv_launcher.py:36-40), read in one piece
is_playing == lprocess # 0 /\ proc[lprocess].st = "running"

Snapshot == [cur |-> cur, tray |-> trayActive, iconA |-> iconActive,
             hk |-> hkActive, lp |-> lprocess, lf |-> lfile,
             playing |-> is_playing, jc |-> justClosed, timers |-> timers]

StopPcs == {"st1", "st2", "st_clr", "st_file", "st_sig", "st_wait"}

\* run() has not returned: the daemon threads are still scheduled
Alive == th[0].pc # "exited"

\* an exit-watch thread that has nothing to do until its process exits
Passive(p) ==
    \/ mon[p].pc \in {"none", "done"}
    \/ mon[p].pc = "wait" /\ proc[mon[p].watch].st = "running"

\* no handler and no exit-watch callback is in progress or due
Quiescent ==
    /\ \A i \in Workers : th[i].pc = "idle"
    /\ th[0].pc \in {"idle", "boot2"}
    /\ \A p \in Procs : Passive(p)

Busy == {i \in Threads : th[i].pc \notin {"idle", "boot", "boot2", "exited"}}

\* no video_utils call has been made
NoCall == [fn |-> "none"]
NoResult == [fn |-> "none", val |-> NoFile]

\* the clipboard holds nothing, something that is not text (an image), or
\* text, a sequence of lines
EmptyClip == [kind |-> "empty", lines |-> << >>]
BinaryClip == [kind |-> "binary", lines |-> << >>]
TextClip(lines) == [kind |-> "text", lines |-> lines]

\* no selection probe is in progress
NoDesk == [present |-> {}, selected |-> << >>, asUri |-> FALSE, tools |-> FALSE,
           before |-> EmptyClip]
NoProbe == [pc |-> "idle", old |-> << >>, new |-> << >>, paths |-> << >>]

LibIdle ==
    /\ call = NoCall
    /\ result = NoResult
    /\ desk = NoDesk
    /\ clip = EmptyClip
    /\ probe = NoProbe

\* the state MKVQuickPlayApp.__init__ leaves
Constructed ==
    /\ th = [i \in Threads |-> IF i = 0 THEN [Idle EXCEPT !.pc = "boot"] ELSE Idle]
    /\ mon = [p \in Procs |-> NoMon]
    /\ proc = [p \in Procs |-> NoProc]
    /\ lprocess = 0
    /\ lfile = NoFile
    /\ cur = NoFile
    /\ justClosed = FALSE
    /\ timers = 0
    /\ trayActive = FALSE
    /\ icon = "none"
    /\ iconActive = FALSE
    /\ hkActive = FALSE
    /\ ctrl = FALSE
    /\ listener = FALSE
    /\ selMgr \in BOOLEAN
    /\ solo = NoTid
    /\ snap = NoSnap
    /\ last = NoLast

Init == Constructed /\ LibIdle

(* --------------------------- history variables ------------------------- *)
\* a step of thread t; w: the step writes state that other threads read
Track(t, w) ==
    /\ solo' = IF solo = t THEN t ELSE IF w THEN NoTid ELSE solo
    /\ snap' = IF solo = t THEN snap ELSE IF w THEN NoSnap ELSE snap
    /\ last' = NoLast

\* the step with which thread t returns from its handler with outcome
\* res; the return is recorded when the handler has run alone
End(t, w, r, res) ==
    /\ last' = IF solo = t
               THEN [who |-> t, kind |-> r.kind, res |-> res, f |-> r.f,
                     newp |-> r.newp, prior |-> r.prior, snap |-> snap]
               ELSE NoLast
    /\ solo' = IF solo = t \/ w THEN NoTid ELSE solo
    /\ snap' = IF solo = t \/ w THEN NoSnap ELSE snap

\* a step of the environment that changes what the handlers act on
Interferes == solo' = NoTid /\ snap' = NoSnap /\ last' = NoLast

\* thread t starts a handler
Begins(t) ==
    /\ solo' = IF Quiescent THEN t ELSE solo
    /\ snap' = IF Quiescent THEN Snapshot ELSE snap
    /\ last' = NoLast

Step(i, r, w) == th' = [th EXCEPT ![i] = r] /\ Track(WTid(i), w)
Goto(i, pc, w) == Step(i, [th[i] EXCEPT !.pc = pc], w)
Done(i, res, w) == th' = [th EXCEPT ![i] = Idle] /\ End(WTid(i), w, th[i], res)


(* ------------------- MPVLauncher.find_mpv (mpv_launcher.py:42) --------- *)
\* what find_mpv() can return: a path (TRUE) or None (FALSE); the search
\* reads the file system, which the application does not control
FindMpvResults == BOOLEAN

(* ------------------- MPVLauncher.stop (mpv_launcher.py:140) ------------ *)
\* stop() returns to its caller.  In play() the next statement is
\* 73-75: mpv_path = self.find_mpv(); if not mpv_path: return False
AfterStop(i, w) ==
    IF th[i].ret = "play_find"
    THEN \E found \in FindMpvResults :
           IF found THEN Step(i, [th[i] EXCEPT !.pc = "play_file", !.sp = 0], w)
           ELSE Done(i, "play_nompv", w)
    ELSE Step(i, [th[i] EXCEPT !.pc = th[i].ret, !.sp = 0], w)

\* an exception leaves the handler and ends its thread; out of run() it
\* ends the process
Raise(i, w) ==
    IF th[i].ret = "exited" THEN Goto(i, "exited", w) ELSE Done(i, "crash", w)

\* a stop() without the early return of 142-143
Stop_check_noreturn(i) ==
    /\ th[i].pc = "st1"
    /\ Goto(i, "st2", FALSE)
    /\ UNCHANGED << mon, proc, lprocess, lfile, cur, justClosed, timers,
                    trayActive, icon, iconActive, hkActive, ctrl, listener,
                    selMgr, libVars >>

\* 142-143: if self._process is None: return
Stop_check(i) ==
    /\ th[i].pc = "st1"
    /\ IF lprocess = 0 THEN AfterStop(i, FALSE) ELSE Goto(i, "st2", FALSE)
    /\ UNCHANGED << mon, proc, lprocess, lfile, cur, justClosed, timers,
                    trayActive, icon, iconActive, hkActive, ctrl, listener,
                    selMgr, libVars >>

\* 145: process = self._process
Stop_read(i) ==
    /\ th[i].pc = "st2"
    /\ Step(i, [th[i] EXCEPT !.pc = "st_clr", !.sp = lprocess], FALSE)
    /\ UNCHANGED << mon, proc, lprocess, lfile, cur, justClosed, timers,
                    trayActive, icon, iconActive, hkActive, ctrl, listener,
                    selMgr, libVars >>

\* 146: self._process = None
Stop_untrack(i) ==
    /\ th[i].pc = "st_clr"
    /\ lprocess' = 0
    /\ proc' = IF th[i].sp = 0 THEN proc
               ELSE [proc EXCEPT ![th[i].sp].stopped = TRUE]
    /\ Goto(i, "st_file", TRUE)
    /\ UNCHANGED << mon, lfile, cur, justClosed, timers, trayActive, icon,
                    iconActive, hkActive, ctrl, listener, selMgr, libVars >>

\* 147: self._current_file = None
Stop_clearfile(i) ==
    /\ th[i].pc = "st_file"
    /\ lfile' = NoFile
    /\ Goto(i, "st_sig", TRUE)
    /\ UNCHANGED << mon, proc, lprocess, cur, justClosed, timers, trayActive,
                    icon, iconActive, hkActive, ctrl, listener, selMgr,
                    libVars >>

\* 149-157: if process.poll() is not None: return; otherwise
\* process.terminate() / process.send_signal(signal.SIGTERM).
\* process is None when the reference was cleared between 142 and 145.
Stop_signal(i) ==
    /\ th[i].pc = "st_sig"
    /\ IF th[i].sp = 0
       THEN Raise(i, FALSE) /\ UNCHANGED proc
       ELSE IF proc[th[i].sp].st # "running"
       THEN AfterStop(i, FALSE) /\ UNCHANGED proc
       ELSE /\ proc' = [proc EXCEPT ![th[i].sp].sig = "term"]
            /\ Goto(i, "st_wait", TRUE)
    /\ UNCHANGED << mon, lprocess, lfile, cur, justClosed, timers,
                    trayActive, icon, iconActive, hkActive, ctrl, listener,
                    selMgr, libVars >>

\* 160-170: process.wait(timeout=0.5); on TimeoutExpired process.kill().
\* The step is the end of the wait: the process has exited by then, or
\* the timeout expires with the process still running and it is killed.
Stop_wait(i) ==
    /\ th[i].pc = "st_wait"
    /\ proc' = IF proc[th[i].sp].st = "running"
               THEN [proc EXCEPT ![th[i].sp].st = "exited", ![th[i].sp].sig = "kill"]
               ELSE proc
    /\ AfterStop(i, TRUE)
    /\ UNCHANGED << mon, lprocess, lfile, cur, justClosed, timers,
                    trayActive, icon, iconActive, hkActive, ctrl, listener,
                    selMgr, libVars >>

(* ------------------- MPVLauncher.play (mpv_launcher.py:68) ------------- *)
\* 77: self._current_file = filepath
Play_setfile(i) ==
    /\ th[i].pc = "play_file"
    /\ lfile' = th[i].f
    /\ Goto(i, "play_popen", TRUE)
    /\ UNCHANGED << mon, proc, lprocess, cur, justClosed, timers, trayActive,
                    icon, iconActive, hkActive, ctrl, listener, selMgr,
                    libVars >>

Unborn == {p \in Procs : proc[p].st = "unborn"}
NextProc == CHOOSE p \in Unborn : \A q \in Unborn : p <= q

\* 95-118: self._process = subprocess.Popen(args, ...) and the exit-watch
\* thread is started; 120-121: Popen raised
Play_popen(i) ==
    /\ th[i].pc = "play_popen"
    /\ \E ok \in BOOLEAN :
         IF ok
         THEN /\ Unborn # {}
              /\ proc' = [proc EXCEPT ![NextProc].st = "running"]
              /\ lprocess' = NextProc
              /\ mon' = [mon EXCEPT ![NextProc] = [pc |-> "start", watch |-> 0]]
              /\ Step(i, [th[i] EXCEPT !.pc = "pl_tray", !.newp = NextProc], TRUE)
         ELSE /\ Goto(i, "play_exc", TRUE)
              /\ UNCHANGED << proc, lprocess, mon >>
    /\ UNCHANGED << lfile, cur, justClosed, timers, trayActive, icon,
                    iconActive, hkActive, ctrl, listener, selMgr, libVars >>

\* 122-123: self._current_file = None; return False
Play_except(i) ==
    /\ th[i].pc = "play_exc"
    /\ lfile' = NoFile
    /\ Done(i, "launchfail", TRUE)
    /\ UNCHANGED << mon, proc, lprocess, cur, justClosed, timers, trayActive,
                    icon, iconActive, hkActive, ctrl, listener, selMgr,
                    libVars >>

(* ------------- MPVLauncher._monitor_process (mpv_launcher.py:125) ------ *)
MonTrack(p, w) == Track(MTid(p), w)

MonEnd(p, w, res) ==
    End(MTid(p), w, [Idle EXCEPT !.kind = "watch", !.prior = mon[p].watch], res)

\* 127-128: if self._process is None: return
Monitor_check(p) ==
    /\ mon[p].pc = "start"
    /\ mon' = [mon EXCEPT ![p].pc = IF lprocess = 0 THEN "done" ELSE "start2"]
    /\ MonTrack(p, FALSE)
    /\ UNCHANGED << th, proc, lprocess, lfile, cur, justClosed, timers,
                    trayActive, icon, iconActive, hkActive, ctrl, listener,
                    selMgr, libVars >>

\* 130: process = self._process (None.wait() raises and ends the thread)
Monitor_read(p) ==
    /\ mon[p].pc = "start2"
    /\ mon' = [mon EXCEPT ![p] = [pc |-> IF lprocess = 0 THEN "done" ELSE "wait",
                                  watch |-> lprocess]]
    /\ MonTrack(p, FALSE)
    /\ UNCHANGED << th, proc, lprocess, lfile, cur, justClosed, timers,
                    trayActive, icon, iconActive, hkActive, ctrl, listener,
                    selMgr, libVars >>

\* 131-134: process.wait() has returned; if self._process is process
Monitor_identity(p) ==
    /\ mon[p].pc = "wait"
    /\ proc[mon[p].watch].st = "exited"
    /\ IF lprocess = mon[p].watch
       THEN /\ mon' = [mon EXCEPT ![p].pc = "clear"]
            /\ solo' = IF \A i \in Threads : th[i].pc \in {"idle", "boot2"}
                          /\ \A q \in Procs \ {p} : Passive(q)
                       THEN MTid(p) ELSE solo
            /\ snap' = IF solo' = MTid(p) THEN Snapshot ELSE snap
            /\ last' = NoLast
       ELSE /\ mon' = [mon EXCEPT ![p] = [pc |-> "done", watch |-> 0]]
            /\ MonEnd(p, FALSE, "stale")
    /\ UNCHANGED << th, proc, lprocess, lfile, cur, justClosed, timers,
                    trayActive, icon, iconActive, hkActive, ctrl, listener,
                    selMgr, libVars >>

\* 135: self._process = None
Monitor_untrack(p) ==
    /\ mon[p].pc = "clear"
    /\ lprocess' = 0
    /\ mon' = [mon EXCEPT ![p].pc = "file"]
    /\ MonTrack(p, TRUE)
    /\ UNCHANGED << th, proc, lfile, cur, justClosed, timers, trayActive, icon,
                    iconActive, hkActive, ctrl, listener, selMgr, libVars >>

\* 136-138: self._current_file = None; if self._on_close: self._on_close()
Monitor_clearfile(p) ==
    /\ mon[p].pc = "file"
    /\ lfile' = NoFile
    /\ mon' = [mon EXCEPT ![p].pc = "cb_cur"]
    /\ MonTrack(p, TRUE)
    /\ UNCHANGED << th, proc, lprocess, cur, justClosed, timers, trayActive,
                    icon, iconActive, hkActive, ctrl, listener, selMgr,
                    libVars >>

(* ------------------- TrayController.set_active (tray_controller.py:152) *)
\* 154-156: the icon image follows _is_active only while an icon exists
IconAfter(active) == IF icon = "running" THEN active ELSE iconActive

(* ------------- MKVQuickPlayApp._on_mpv_closed (app.py:135) ------------- *)
\* 137: self._current_file = None (the call of on_close is counted here)
OnClose_cur(p) ==
    /\ mon[p].pc = "cb_cur"
    /\ cur' = NoFile
    /\ proc' = [proc EXCEPT ![mon[p].watch].closes = IF @ < 2 THEN @ + 1 ELSE @]
    /\ mon' = [mon EXCEPT ![p].pc = "cb_tray"]
    /\ MonTrack(p, TRUE)
    /\ UNCHANGED << th, lprocess, lfile, justClosed, timers, trayActive, icon,
                    iconActive, hkActive, ctrl, listener, selMgr, libVars >>

\* 138: self._tray_controller.set_active(False)
OnClose_tray(p) ==
    /\ mon[p].pc = "cb_tray"
    /\ trayActive' = FALSE
    /\ iconActive' = IconAfter(FALSE)
    /\ mon' = [mon EXCEPT ![p].pc = "cb_hk"]
    /\ MonTrack(p, TRUE)
    /\ UNCHANGED << th, proc, lprocess, lfile, cur, justClosed, timers, icon,
                    hkActive, ctrl, listener, selMgr, libVars >>

\* 139: self._hotkey_manager.is_preview_active = False
OnClose_hotkey(p) ==
    /\ mon[p].pc = "cb_hk"
    /\ hkActive' = FALSE
    /\ mon' = [mon EXCEPT ![p] = [pc |-> "done", watch |-> 0]]
    /\ MonEnd(p, TRUE, "notified")
    /\ UNCHANGED << th, proc, lprocess, lfile, cur, justClosed, timers,
                    trayActive, icon, iconActive, ctrl, listener, selMgr,
                    libVars >>


(* ------------- MKVQuickPlayApp._on_hotkey_pressed (app.py:57) ---------- *)
\* 59 with mpv_launcher.py:38-39: if self._process is None: return False
Toggle_tracked(i) ==
    /\ th[i].pc = "hk1"
    /\ Goto(i, IF lprocess = 0 THEN "pv" ELSE "hk2", FALSE)
    /\ UNCHANGED << mon, proc, lprocess, lfile, cur, justClosed, timers,
                    trayActive, icon, iconActive, hkActive, ctrl, listener,
                    selMgr, libVars >>

\* 59 with mpv_launcher.py:40: return self._process.poll() is None
Toggle_poll(i) ==
    /\ th[i].pc = "hk2"
    /\ IF lprocess = 0 THEN Done(i, "crash", FALSE)
       ELSE IF proc[lprocess].st = "running" THEN Goto(i, "cl_set", FALSE)
       ELSE Goto(i, "pv", FALSE)
    /\ UNCHANGED << mon, proc, lprocess, lfile, cur, justClosed, timers,
                    trayActive, icon, iconActive, hkActive, ctrl, listener,
                    selMgr, libVars >>

(* ---------------- MKVQuickPlayApp._play_video (app.py:76) -------------- *)
\* 78-91: filepath is not a video, or find_mpv() finds no player binary
PlayVideo_check(i, file, found, w) ==
    IF ~is_video_file(PathName(file)) THEN Done(i, "novideo", w)
    ELSE IF ~found THEN Done(i, "nompv", w)
    ELSE Step(i, [th[i] EXCEPT !.pc = "pl_cur", !.f = file], w)

\* 93-94: self._current_file = filepath; play(filepath) is entered
PlayVideo_setcur(i) ==
    /\ th[i].pc = "pl_cur"
    /\ cur' = th[i].f
    /\ Step(i, [th[i] EXCEPT !.pc = "st1", !.ret = "play_find",
                             !.prior = IF is_playing THEN lprocess ELSE 0], TRUE)
    /\ UNCHANGED << mon, proc, lprocess, lfile, justClosed, timers,
                    trayActive, icon, iconActive, hkActive, ctrl, listener,
                    selMgr, libVars >>

\* 96-97: self._tray_controller.set_active(True)
PlayVideo_tray(i) ==
    /\ th[i].pc = "pl_tray"
    /\ trayActive' = TRUE
    /\ iconActive' = IconAfter(TRUE)
    /\ Goto(i, "pl_hk", TRUE)
    /\ UNCHANGED << mon, proc, lprocess, lfile, cur, justClosed, timers,
                    icon, hkActive, ctrl, listener, selMgr, libVars >>

\* a _play_video that leaves is_preview_active as it was
PlayVideo_hotkey_unset(i) ==
    /\ th[i].pc = "pl_hk"
    /\ Done(i, "playing", TRUE)
    /\ UNCHANGED << mon, proc, lprocess, lfile, cur, justClosed, timers,
                    trayActive, icon, iconActive, hkActive, ctrl, listener,
                    selMgr, libVars >>

\* 98: self._hotkey_manager.is_preview_active = True
PlayVideo_hotkey(i) ==
    /\ th[i].pc = "pl_hk"
    /\ hkActive' = TRUE
    /\ Done(i, "playing", TRUE)
    /\ UNCHANGED << mon, proc, lprocess, lfile, cur, justClosed, timers,
                    trayActive, icon, iconActive, ctrl, listener, selMgr,
                    libVars >>

(* ---------- MKVQuickPlayApp._preview_selected_video (app.py:64) -------- *)
\* 66-74: the just-closed guard, the missing selection manager, the probe
\* of the selection and the entry of _play_video
Preview(i) ==
    /\ th[i].pc = "pv"
    /\ IF justClosed THEN Done(i, "guarded", FALSE)
       ELSE IF ~selMgr THEN Done(i, "noprobe", FALSE)
       ELSE \E fmActive \in BOOLEAN, sel \in Selections, found \in FindMpvResults :
              LET v == get_selected_file(fmActive, sel)
              IN  IF v = NoFile THEN Done(i, "noselection", FALSE)
                  ELSE PlayVideo_check(i, v, found, FALSE)
    /\ UNCHANGED << mon, proc, lprocess, lfile, cur, justClosed, timers,
                    trayActive, icon, iconActive, hkActive, ctrl, listener,
                    selMgr, libVars >>

(* ------- MKVQuickPlayApp._navigate_next / _navigate_previous (101/110) - *)
\* 103: if not self._current_file: return
Navigate_check(i) ==
    /\ th[i].pc = "nv1"
    /\ IF cur = NoFile THEN Done(i, "nocurrent", FALSE) ELSE Goto(i, "nv2", FALSE)
    /\ UNCHANGED << mon, proc, lprocess, lfile, cur, justClosed, timers,
                    trayActive, icon, iconActive, hkActive, ctrl, listener,
                    selMgr, libVars >>

\* 106: next_file = get_next_video(self._current_file); Path(None) raises
Navigate_sibling(i) ==
    /\ th[i].pc = "nv2"
    /\ IF cur = NoFile THEN Done(i, "crash", FALSE)
       ELSE \E exists \in BOOLEAN, entries \in SUBSET AllPaths :
              Step(i, [th[i] EXCEPT !.pc = "nv3",
                         !.f = IF th[i].kind = "down"
                               THEN get_next_video(cur, exists, entries)
                               ELSE get_previous_video(cur, exists, entries)],
                   FALSE)
    /\ UNCHANGED << mon, proc, lprocess, lfile, cur, justClosed, timers,
                    trayActive, icon, iconActive, hkActive, ctrl, listener,
                    selMgr, libVars >>

\* 107-108: if next_file and next_file != self._current_file:
\* self._play_video(next_file)
Navigate_compare(i) ==
    /\ th[i].pc = "nv3"
    /\ IF th[i].f # NoFile /\ th[i].f # cur
       THEN \E found \in FindMpvResults : PlayVideo_check(i, th[i].f, found, FALSE)
       ELSE Done(i, "nosibling", FALSE)
    /\ UNCHANGED << mon, proc, lprocess, lfile, cur, justClosed, timers,
                    trayActive, icon, iconActive, hkActive, ctrl, listener,
                    selMgr, libVars >>

(* --------------- MKVQuickPlayApp._close_preview (app.py:119) ----------- *)
InClose(r) ==
    \/ r.pc \in {"cl_cur", "cl_tray", "cl_hk"}
    \/ r.pc \in StopPcs /\ r.ret = "cl_cur"

ClosesInProgress == Cardinality({i \in Threads : InClose(th[i])})

\* 121-122: self._just_closed = True; stop() is entered
Close_guard(i) ==
    /\ th[i].pc = "cl_set"
    /\ timers + ClosesInProgress < MaxTimers
    /\ justClosed' = TRUE
    /\ Step(i, [th[i] EXCEPT !.pc = "st1", !.ret = "cl_cur"], TRUE)
    /\ UNCHANGED << mon, proc, lprocess, lfile, cur, timers, trayActive,
                    icon, iconActive, hkActive, ctrl, listener, selMgr,
                    libVars >>

\* 123: self._current_file = None
Close_cur(i) ==
    /\ th[i].pc = "cl_cur"
    /\ cur' = NoFile
    /\ Goto(i, "cl_tray", TRUE)
    /\ UNCHANGED << mon, proc, lprocess, lfile, justClosed, timers,
                    trayActive, icon, iconActive, hkActive, ctrl, listener,
                    selMgr, libVars >>

\* 124: self._tray_controller.set_active(False)
Close_tray(i) ==
    /\ th[i].pc = "cl_tray"
    /\ trayActive' = FALSE
    /\ iconActive' = IconAfter(FALSE)
    /\ Goto(i, "cl_hk", TRUE)
    /\ UNCHANGED << mon, proc, lprocess, lfile, cur, justClosed, timers,
                    icon, hkActive, ctrl, listener, selMgr, libVars >>

\* 125-133: self._hotkey_manager.is_preview_active = False; the clear_flag
\* thread is started
Close_hotkey(i) ==
    /\ th[i].pc = "cl_hk"
    /\ hkActive' = FALSE
    /\ timers' = timers + 1
    /\ Done(i, "closed", TRUE)
    /\ UNCHANGED << mon, proc, lprocess, lfile, cur, justClosed, trayActive,
                    icon, iconActive, ctrl, listener, selMgr, libVars >>

\* 128-131: clear_flag: time.sleep(0.5); self._just_closed = False
ClearFlag ==
    /\ timers > 0
    /\ timers' = timers - 1
    /\ justClosed' = FALSE
    /\ Interferes
    /\ UNCHANGED << th, mon, proc, lprocess, lfile, cur, trayActive, icon,
                    iconActive, hkActive, ctrl, listener, selMgr, libVars >>

(* ------------------- HotkeyManager (hotkey_manager.py) ----------------- *)
Keys == {"ctrl", "space", "backtick", "up", "down", "esc"}

\* an _is_hotkey_pressed without the test of _ctrl_pressed at 96
IsHotkeyPressed_unheld(key) == key \in {"space", "backtick"}

\* 89-117: the modifier is held and the key is one of the secondary bindings
IsHotkeyPressed(key) == ctrl /\ key \in {"space", "backtick"}

FreeWorkers == {i \in Workers : th[i].pc = "idle"}
FreeWorker == CHOOSE i \in FreeWorkers : \A j \in FreeWorkers : i <= j

\* a handler may start: in a serial run when no other is running, in an
\* overlapping run while fewer than MaxWorkers are
CanStart(serial) == IF serial THEN Busy = {} ELSE Cardinality(Busy) < MaxWorkers

\* threading.Thread(target=callback, daemon=True).start()
Dispatch(kind, pc, serial) ==
    /\ CanStart(serial)
    /\ th' = [th EXCEPT ![FreeWorker] = [Idle EXCEPT !.pc = pc, !.kind = kind]]
    /\ Begins(WTid(FreeWorker))

\* an _on_key_press without the test of is_preview_active at 132
OnKeyPress_ungated(key, serial) ==
    /\ listener
    /\ CanStart(serial)
    /\ IF key = "ctrl"
       THEN ctrl' = TRUE /\ UNCHANGED << th, solo, snap, last >>
       ELSE /\ UNCHANGED ctrl
            /\ IF IsHotkeyPressed(key) THEN Dispatch("hotkey", "hk1", serial)
               ELSE IF key = "up" THEN Dispatch("up", "nv1", serial)
               ELSE IF key = "down" THEN Dispatch("down", "nv1", serial)
               ELSE IF key = "esc" THEN Dispatch("esc", "cl_set", serial)
               ELSE UNCHANGED << th, solo, snap, last >>
    /\ UNCHANGED << mon, proc, lprocess, lfile, cur, justClosed, timers,
                    trayActive, icon, iconActive, hkActive, listener, selMgr,
                    libVars >>

\* 119-139: _on_key_press
OnKeyPress(key, serial) ==
    /\ listener
    /\ CanStart(serial)
    /\ IF key = "ctrl"
       THEN ctrl' = TRUE /\ UNCHANGED << th, solo, snap, last >>
       ELSE /\ UNCHANGED ctrl
            /\ IF IsHotkeyPressed(key) THEN Dispatch("hotkey", "hk1", serial)
               ELSE IF hkActive /\ key = "up" THEN Dispatch("up", "nv1", serial)
               ELSE IF hkActive /\ key = "down" THEN Dispatch("down", "nv1", serial)
               ELSE IF hkActive /\ key = "esc" THEN Dispatch("esc", "cl_set", serial)
               ELSE UNCHANGED << th, solo, snap, last >>
    /\ UNCHANGED << mon, proc, lprocess, lfile, cur, justClosed, timers,
                    trayActive, icon, iconActive, hkActive, listener, selMgr,
                    libVars >>

\* 141-144: _on_key_release
OnKeyRelease(key, serial) ==
    /\ listener
    /\ CanStart(serial)
    /\ ctrl' = IF key = "ctrl" THEN FALSE ELSE ctrl
    /\ UNCHANGED << th, solo, snap, last >>
    /\ UNCHANGED << mon, proc, lprocess, lfile, cur, justClosed, timers,
                    trayActive, icon, iconActive, hkActive, listener, selMgr,
                    libVars >>

(* ------------------- MKVQuickPlayApp.run (app.py:147) ------------------ *)
\* 156: self._hotkey_manager.start()
Run_startHotkey ==
    /\ th[0].pc = "boot"
    /\ listener' = TRUE
    /\ Goto(0, "boot2", TRUE)
    /\ UNCHANGED << mon, proc, lprocess, lfile, cur, justClosed, timers,
                    trayActive, icon, iconActive, hkActive, ctrl, selMgr,
                    libVars >>

\* 160 with tray_controller.py:158-166: the icon is created in the colour
\* of _is_active and the tray loop runs
Run_startTray ==
    /\ th[0].pc = "boot2"
    /\ icon' = "running"
    /\ iconActive' = trayActive
    /\ Goto(0, "idle", TRUE)
    /\ UNCHANGED << mon, proc, lprocess, lfile, cur, justClosed, timers,
                    trayActive, hkActive, ctrl, listener, selMgr, libVars >>

\* a tray item bound to _on_hotkey_pressed, the toggle of the hotkey
Tray_preview_toggle(serial) ==
    /\ th[0].pc = "idle"
    /\ icon = "running"
    /\ CanStart(serial)
    /\ th' = [th EXCEPT ![0] = [Idle EXCEPT !.pc = "hk1", !.kind = "tray"]]
    /\ Begins(WTid(0))
    /\ UNCHANGED << mon, proc, lprocess, lfile, cur, justClosed, timers,
                    trayActive, icon, iconActive, hkActive, ctrl, listener,
                    selMgr, libVars >>

\* tray_controller.py:129-132: "Preview Selected Video" calls on_preview,
\* which app.py:45 binds to _preview_selected_video
Tray_preview(serial) ==
    /\ th[0].pc = "idle"
    /\ icon = "running"
    /\ CanStart(serial)
    /\ th' = [th EXCEPT ![0] = [Idle EXCEPT !.pc = "pv", !.kind = "tray"]]
    /\ Begins(WTid(0))
    /\ UNCHANGED << mon, proc, lprocess, lfile, cur, justClosed, timers,
                    trayActive, icon, iconActive, hkActive, ctrl, listener,
                    selMgr, libVars >>

\* tray_controller.py:146-149 with app.py:141-143: "Quit" calls on_quit,
\* which enters mpv_launcher.stop()
Tray_quit(serial) ==
    /\ th[0].pc = "idle"
    /\ icon = "running"
    /\ CanStart(serial)
    /\ th' = [th EXCEPT ![0] = [Idle EXCEPT !.pc = "st1", !.kind = "quit",
                                           !.ret = "q_hk"]]
    /\ Begins(WTid(0))
    /\ UNCHANGED << mon, proc, lprocess, lfile, cur, justClosed, timers,
                    trayActive, icon, iconActive, hkActive, ctrl, listener,
                    selMgr, libVars >>

\* app.py:144 with hotkey_manager.py:83-87: self._hotkey_manager.stop()
Quit_hotkey ==
    /\ th[0].pc = "q_hk"
    /\ listener' = FALSE
    /\ Goto(0, "q_icon", TRUE)
    /\ UNCHANGED << mon, proc, lprocess, lfile, cur, justClosed, timers,
                    trayActive, icon, iconActive, hkActive, ctrl, selMgr,
                    libVars >>

\* tray_controller.py:150 with 168-172: self.stop() ends the tray loop
Quit_icon ==
    /\ th[0].pc = "q_icon"
    /\ icon' = "none"
    /\ Goto(0, "run_hk", TRUE)
    /\ UNCHANGED << mon, proc, lprocess, lfile, cur, justClosed, timers,
                    trayActive, iconActive, hkActive, ctrl, listener, selMgr,
                    libVars >>

\* app.py:163-164: self._hotkey_manager.stop(); mpv_launcher.stop() is entered
Run_cleanup ==
    /\ th[0].pc = "run_hk"
    /\ listener' = FALSE
    /\ Step(0, [th[0] EXCEPT !.pc = "st1", !.ret = "exited"], TRUE)
    /\ UNCHANGED << mon, proc, lprocess, lfile, cur, justClosed, timers,
                    trayActive, icon, iconActive, hkActive, ctrl, selMgr,
                    libVars >>

(* ------------------------ the Popen objects ---------------------------- *)
\* the references to a Popen object: MPVLauncher._process, the local
\* variable process of _monitor_process (mpv_launcher.py:130) and the
\* local variable process of stop() (mpv_launcher.py:145)
Referenced(p) ==
    \/ lprocess = p
    \/ \E q \in Procs : mon[q].watch = p
    \/ \E i \in Threads : th[i].sp = p

Collectable == {p \in Procs : proc[p].st = "exited" /\ ~Referenced(p)}

\* the last reference to the Popen object of an exited process is dropped:
\* the object is freed at once (reference counting), and with it the
\* history the model keeps of the process
Collect ==
    /\ Collectable # {}
    /\ proc' = [p \in Procs |-> IF p \in Collectable THEN Gone ELSE proc[p]]
    /\ last' = NoLast
    /\ UNCHANGED << th, mon, lprocess, lfile, cur, justClosed, timers,
                    trayActive, icon, iconActive, hkActive, ctrl, listener,
                    selMgr, solo, snap, libVars >>

(* ----------------------------- environment ----------------------------- *)
\* the player process ends by itself: the user closed its window, the file
\* could not be played, or it obeyed SIGTERM
ProcessExits(p) ==
    /\ proc[p].st = "running"
    /\ proc' = [proc EXCEPT ![p].st = "exited"]
    /\ Interferes
    /\ UNCHANGED << th, mon, lprocess, lfile, cur, justClosed, timers,
                    trayActive, icon, iconActive, hkActive, ctrl, listener,
                    selMgr, libVars >>

(* --------------------------- specification ----------------------------- *)
\* the program takes a step: run() has not returned and no Popen object
\* waits to be freed
Ready == Alive /\ Collectable = {}

\* one step of a handler thread, of an exit-watch thread or of a
\* guard-clearing thread
ThreadStep ==
    \/ \E i \in Threads : Stop_check(i) /\ Ready
    \/ \E i \in Threads : Stop_read(i) /\ Ready
    \/ \E i \in Threads : Stop_untrack(i) /\ Ready
    \/ \E i \in Threads : Stop_clearfile(i) /\ Ready
    \/ \E i \in Threads : Stop_signal(i) /\ Ready
    \/ \E i \in Threads : Stop_wait(i) /\ Ready
    \/ \E i \in Threads : Play_setfile(i) /\ Ready
    \/ \E i \in Threads : Play_popen(i) /\ Ready
    \/ \E i \in Threads : Play_except(i) /\ Ready
    \/ \E p \in Procs : Monitor_check(p) /\ Ready
    \/ \E p \in Procs : Monitor_read(p) /\ Ready
    \/ \E p \in Procs : Monitor_identity(p) /\ Ready
    \/ \E p \in Procs : Monitor_untrack(p) /\ Ready
    \/ \E p \in Procs : Monitor_clearfile(p) /\ Ready
    \/ \E p \in Procs : OnClose_cur(p) /\ Ready
    \/ \E p \in Procs : OnClose_tray(p) /\ Ready
    \/ \E p \in Procs : OnClose_hotkey(p) /\ Ready
    \/ \E i \in Threads : Toggle_tracked(i) /\ Ready
    \/ \E i \in Threads : Toggle_poll(i) /\ Ready
    \/ \E i \in Threads : Preview(i) /\ Ready
    \/ \E i \in Threads : PlayVideo_setcur(i) /\ Ready
    \/ \E i \in Threads : PlayVideo_tray(i) /\ Ready
    \/ \E i \in Threads : PlayVideo_hotkey(i) /\ Ready
    \/ \E i \in Threads : Close_guard(i) /\ Ready
    \/ \E i \in Threads : Close_cur(i) /\ Ready
    \/ \E i \in Threads : Close_tray(i) /\ Ready
    \/ \E i \in Threads : Close_hotkey(i) /\ Ready
    \/ ClearFlag /\ Ready
    \/ \E p \in Procs : ProcessExits(p) /\ Ready

NavigateStep ==
    \/ \E i \in Threads : Navigate_check(i) /\ Ready
    \/ \E i \in Threads : Navigate_sibling(i) /\ Ready
    \/ \E i \in Threads : Navigate_compare(i) /\ Ready

MainStep ==
    \/ Run_startHotkey /\ Ready
    \/ Run_startTray /\ Ready
    \/ Quit_hotkey /\ Ready
    \/ Quit_icon /\ Ready
    \/ Run_cleanup /\ Ready

\* The signals arrive one after the other: a key press or menu click is
\* handled when the handler of the one before has returned.  The
\* exit-watch threads, the guard-clearing threads and the player processes
\* run at any time.
Program ==
    \/ ThreadStep
    \/ NavigateStep
    \/ MainStep
    \/ \E key \in Keys : OnKeyPress(key, TRUE) /\ Ready
    \/ \E key \in Keys : OnKeyRelease(key, TRUE) /\ Ready
    \/ Tray_preview(TRUE) /\ Ready
    \/ Tray_quit(TRUE) /\ Ready

Next ==
    \/ Collect
    \/ Program

Spec == Init /\ [][Next]_vars

\* Key repeat of Escape: the toggle and close signals only, where a close
\* signal is handled while up to MaxWorkers - 1 other handlers are still
\* running (stop() waits up to 0.5 s for the player); a player runs until
\* it is stopped.
RaceNext ==
    \/ Collect
    \/ Run_startHotkey /\ Ready
    \/ Run_startTray /\ Ready
    \/ \E key \in {"ctrl", "space"} : OnKeyPress(key, TRUE) /\ Ready
    \/ OnKeyPress("esc", FALSE) /\ Ready
    \/ \E i \in Threads : Toggle_tracked(i) /\ Ready
    \/ \E i \in Threads : Toggle_poll(i) /\ Ready
    \/ \E i \in Threads : Preview(i) /\ Ready
    \/ \E i \in Threads : PlayVideo_setcur(i) /\ Ready
    \/ \E i \in Threads : PlayVideo_tray(i) /\ Ready
    \/ \E i \in Threads : PlayVideo_hotkey(i) /\ Ready
    \/ \E i \in Threads : Stop_check(i) /\ Ready
    \/ \E i \in Threads : Stop_read(i) /\ Ready
    \/ \E i \in Threads : Stop_untrack(i) /\ Ready
    \/ \E i \in Threads : Stop_clearfile(i) /\ Ready
    \/ \E i \in Threads : Stop_signal(i) /\ Ready
    \/ \E i \in Threads : Stop_wait(i) /\ Ready
    \/ \E i \in Threads : Play_setfile(i) /\ Ready
    \/ \E i \in Threads : Play_popen(i) /\ Ready
    \/ \E i \in Threads : Play_except(i) /\ Ready
    \/ \E p \in Procs : Monitor_check(p) /\ Ready
    \/ \E p \in Procs : Monitor_read(p) /\ Ready
    \/ \E p \in Procs : Monitor_identity(p) /\ Ready
    \/ \E i \in Threads : Close_guard(i) /\ Ready
    \/ \E i \in Threads : Close_cur(i) /\ Ready
    \/ \E i \in Threads : Close_tray(i) /\ Ready
    \/ \E i \in Threads : Close_hotkey(i) /\ Ready
    \/ ClearFlag /\ Ready
    \/ \E p \in Procs : ProcessExits(p) /\ proc[p].sig = "term" /\ Ready

RaceSpec == Init /\ [][RaceNext]_vars

\* Quit during a hotkey handler: the tray menu runs on the main thread and
\* the hotkey handlers on their own threads, so Quit can be chosen while
\* the handler of a hotkey press is still running; a player runs until it
\* is stopped.
QuitNext ==
    \/ Collect
    \/ Run_startHotkey /\ Ready
    \/ Run_startTray /\ Ready
    \/ \E key \in {"ctrl", "space"} : OnKeyPress(key, TRUE) /\ Ready
    \/ Tray_quit(FALSE) /\ Ready
    \/ Quit_hotkey /\ Ready
    \/ Quit_icon /\ Ready
    \/ Run_cleanup /\ Ready
    \/ \E i \in Threads : Toggle_tracked(i) /\ Ready
    \/ \E i \in Threads : Toggle_poll(i) /\ Ready
    \/ \E i \in Threads : Preview(i) /\ Ready
    \/ \E i \in Threads : PlayVideo_setcur(i) /\ Ready
    \/ \E i \in Threads : PlayVideo_tray(i) /\ Ready
    \/ \E i \in Threads : PlayVideo_hotkey(i) /\ Ready
    \/ \E i \in Threads : Stop_check(i) /\ Ready
    \/ \E i \in Threads : Stop_read(i) /\ Ready
    \/ \E i \in Threads : Stop_untrack(i) /\ Ready
    \/ \E i \in Threads : Stop_clearfile(i) /\ Ready
    \/ \E i \in Threads : Stop_signal(i) /\ Ready
    \/ \E i \in Threads : Stop_wait(i) /\ Ready
    \/ \E i \in Threads : Play_setfile(i) /\ Ready
    \/ \E i \in Threads : Play_popen(i) /\ Ready
    \/ \E i \in Threads : Play_except(i) /\ Ready
    \/ \E p \in Procs : Monitor_check(p) /\ Ready
    \/ \E p \in Procs : Monitor_read(p) /\ Ready
    \/ \E p \in Procs : Monitor_identity(p) /\ Ready
    \/ \E i \in Threads : Close_guard(i) /\ Ready
    \/ \E i \in Threads : Close_cur(i) /\ Ready
    \/ \E i \in Threads : Close_tray(i) /\ Ready
    \/ \E i \in Threads : Close_hotkey(i) /\ Ready
    \/ ClearFlag /\ Ready
    \/ \E p \in Procs : ProcessExits(p) /\ proc[p].sig = "term" /\ Ready

QuitSpec == Init /\ [][QuitNext]_vars

\* Key repeat of the hotkey: the toggle signal only, where a press is
\* handled while up to MaxWorkers - 1 other toggle handlers are still
\* running (the selection probe and stop() take tenths of a second).  The
\* handlers alone: a player runs until it is stopped and the exit-watch
\* threads are not scheduled meanwhile.
PlayNext ==
    \/ Collect
    \/ Run_startHotkey /\ Ready
    \/ OnKeyPress("ctrl", FALSE) /\ Ready
    \/ OnKeyPress("space", FALSE) /\ Ready
    \/ \E i \in Threads : Toggle_tracked(i) /\ Ready
    \/ \E i \in Threads : Toggle_poll(i) /\ Ready
    \/ \E i \in Threads : Preview(i) /\ Ready
    \/ \E i \in Threads : PlayVideo_setcur(i) /\ Ready
    \/ \E i \in Threads : PlayVideo_tray(i) /\ Ready
    \/ \E i \in Threads : PlayVideo_hotkey(i) /\ Ready
    \/ \E i \in Threads : Stop_check(i) /\ Ready
    \/ \E i \in Threads : Stop_read(i) /\ Ready
    \/ \E i \in Threads : Stop_untrack(i) /\ Ready
    \/ \E i \in Threads : Stop_clearfile(i) /\ Ready
    \/ \E i \in Threads : Stop_signal(i) /\ Ready
    \/ \E i \in Threads : Stop_wait(i) /\ Ready
    \/ \E i \in Threads : Play_setfile(i) /\ Ready
    \/ \E i \in Threads : Play_popen(i) /\ Ready
    \/ \E i \in Threads : Play_except(i) /\ Ready
    \/ \E i \in Threads : Close_guard(i) /\ Ready
    \/ \E i \in Threads : Close_cur(i) /\ Ready
    \/ \E i \in Threads : Close_tray(i) /\ Ready
    \/ \E i \in Threads : Close_hotkey(i) /\ Ready
    \/ ClearFlag /\ Ready

PlaySpec == Init /\ [][PlayNext]_vars

\* The keyboard listener and the handlers it starts, one signal after the
\* other: every key is pressed and released; a player runs until it is
\* stopped and the tray is not used.
ListenNext ==
    \/ Collect
    \/ Run_startHotkey /\ Ready
    \/ \E key \in Keys : OnKeyPress(key, TRUE) /\ Ready
    \/ \E key \in Keys : OnKeyRelease(key, TRUE) /\ Ready
    \/ \E i \in Threads : Toggle_tracked(i) /\ Ready
    \/ \E i \in Threads : Toggle_poll(i) /\ Ready
    \/ \E i \in Threads : Preview(i) /\ Ready
    \/ \E i \in Threads : PlayVideo_setcur(i) /\ Ready
    \/ \E i \in Threads : PlayVideo_tray(i) /\ Ready
    \/ \E i \in Threads : PlayVideo_hotkey(i) /\ Ready
    \/ \E i \in Threads : Stop_check(i) /\ Ready
    \/ \E i \in Threads : Stop_read(i) /\ Ready
    \/ \E i \in Threads : Stop_untrack(i) /\ Ready
    \/ \E i \in Threads : Stop_clearfile(i) /\ Ready
    \/ \E i \in Threads : Stop_signal(i) /\ Ready
    \/ \E i \in Threads : Stop_wait(i) /\ Ready
    \/ \E i \in Threads : Play_setfile(i) /\ Ready
    \/ \E i \in Threads : Play_popen(i) /\ Ready
    \/ \E i \in Threads : Play_except(i) /\ Ready
    \/ \E i \in Threads : Close_guard(i) /\ Ready
    \/ \E i \in Threads : Close_cur(i) /\ Ready
    \/ \E i \in Threads : Close_tray(i) /\ Ready
    \/ \E i \in Threads : Close_hotkey(i) /\ Ready
    \/ ClearFlag /\ Ready
    \/ NavigateStep

ListenSpec == Init /\ [][ListenNext]_vars

\* Previews opened with the hotkey and closed with Escape or by the player
\* exiting, one signal after the other, while run() stays in the tray loop.
\* A started guard-clearing thread is a daemon thread of a running
\* interpreter: its time.sleep(0.5) returns and it is scheduled, so it
\* eventually assigns _just_closed.  Nothing obliges the user to press a
\* key or the player to exit.
GuardNext ==
    \/ Collect
    \/ Run_startHotkey /\ Ready
    \/ \E key \in {"ctrl", "space", "esc"} : OnKeyPress(key, TRUE) /\ Ready
    \/ ThreadStep

GuardSpec ==
    /\ Init
    /\ [][GuardNext]_vars
    /\ WF_vars(Collect)
    /\ WF_vars(ClearFlag /\ Ready)

(* ------------------- calls of video_utils (video_utils.py) ------------- *)
\* the functions of video_utils are called on one folder: the entries it
\* holds are any of DirPaths, and the path passed to the sibling functions
\* exists when it is one of them
ListCalls == [fn : {"list"}, isDir : BOOLEAN, entries : SUBSET DirPaths]

SiblingCalls ==
    {[fn |-> f, c |-> c, exists |-> (c \in e), entries |-> e] :
        f \in {"next", "previous"}, c \in DirPaths, e \in SUBSET DirPaths}

\* str.upper() and str.capitalize() of a suffix, to write the suffixes in
\* three letter cases
Upper(s) == [k \in 1 .. Len(s) |-> IF s[k] \in 97 .. 122 THEN s[k] - 32 ELSE s[k]]
Capital(s) == [k \in 1 .. Len(s) |-> IF k = 2 THEN Upper(s)[k] ELSE s[k]]
CaseForms(s) == {s, Upper(s), Capital(s)}

\* the supported suffixes and '.txt', '.mk', '.mkvx', '.srt'
SampleSuffixes ==
    SUPPORTED_EXTENSIONS \cup
    { << 46, 116, 120, 116 >>, << 46, 109, 107 >>,
      << 46, 109, 107, 118, 120 >>, << 46, 115, 114, 116 >> }

\* the file names is_video_file is called with: "a" with every sample
\* suffix in three letter cases, and "a", ".mkv", "a.mkv.", "a.b.MKV", "mkv"
SampleNames ==
    {<< 97 >> \o v : v \in UNION {CaseForms(e) : e \in SampleSuffixes}} \cup
    { << 97 >>, << 46, 109, 107, 118 >>, << 97, 46, 109, 107, 118, 46 >>,
      << 97, 46, 98, 46, 77, 75, 86 >>, << 109, 107, 118 >> }

VideoCalls == [fn : {"is_video"}, path : SampleNames]

\* get_selected_file is called with any selection, with the file manager
\* in front or not, and with probes that work or fail
SelectedCalls ==
    [fn : {"selected"}, queryOk : BOOLEAN, fmWindow : BOOLEAN,
     probeOk : BOOLEAN, selection : Selections]

UtilInit ==
    /\ Constructed
    /\ selMgr
    /\ call \in ListCalls \cup SiblingCalls \cup VideoCalls \cup SelectedCalls
    /\ result = NoResult
    /\ desk = NoDesk
    /\ clip = EmptyClip
    /\ probe = NoProbe

Returns(v) ==
    /\ result.fn = "none"
    /\ result' = [fn |-> call.fn, val |-> v]
    /\ UNCHANGED << call, desk, clip, probe >>
    /\ UNCHANGED appVars

Call_list ==
    /\ call.fn = "list"
    /\ Returns(get_video_files_in_directory(call.isDir, call.entries))

Call_next ==
    /\ call.fn = "next"
    /\ Returns(get_next_video(call.c, call.exists, call.entries))

Call_previous ==
    /\ call.fn = "previous"
    /\ Returns(get_previous_video(call.c, call.exists, call.entries))

Call_is_video ==
    /\ call.fn = "is_video"
    /\ Returns(is_video_file(call.path))

Call_selected ==
    /\ call.fn = "selected"
    /\ Returns(get_selected_file(
                   is_file_manager_active(call.queryOk, call.fmWindow),
                   get_selected_files(call.probeOk, call.selection)))

UtilNext ==
    Call_list \/ Call_next \/ Call_previous \/ Call_is_video \/ Call_selected

UtilSpec == UtilInit /\ [][UtilNext]_vars

(* ------- LinuxSelectionManager._get_selection_via_clipboard (linux.py:110) *)
\* A line of clipboard text: the empty line << >>, the path p written
\* plainly << p >>, or the URI of the path << "file://", Quote(p) >>.  A
\* plain line whose path does not exist stands for any other text.
Quote(p) == << "%", p >>
\* urllib.parse.unquote
Unquote(q) == q[2]
BlankLine == << >>
PlainLine(p) == << p >>
UriLine(p) == << "file://", Quote(p) >>
Lines == {BlankLine} \cup {PlainLine(p) : p \in AllPaths}
                     \cup {UriLine(p) : p \in AllPaths}

\* what the clipboard can hold before a probe: nothing, an image, or a
\* text of one or two lines
Contents ==
    {EmptyClip, BinaryClip} \cup {TextClip(<< a >>) : a \in Lines}
                            \cup {TextClip(<< a, b >>) : a \in Lines, b \in Lines}

\* str.strip() of a text: the white space at its ends, here its empty first
\* and last lines, is removed
RECURSIVE LStrip(_)
LStrip(t) ==
    IF t = << >> THEN << >>
    ELSE IF Head(t) = BlankLine THEN LStrip(Tail(t)) ELSE t

RECURSIVE RStrip(_)
RStrip(t) ==
    IF t = << >> THEN << >>
    ELSE IF t[Len(t)] = BlankLine THEN RStrip(SubSeq(t, 1, Len(t) - 1)) ELSE t

Strip(t) == RStrip(LStrip(t))

\* 40-51, _run_command(['xclip', '-selection', 'clipboard', '-o']): the
\* stripped text, or None (written << >>, falsy like '') when xclip is
\* missing or exits with an error because the clipboard holds no text
ReadClipboard ==
    IF desk.tools /\ clip.kind = "text" THEN Strip(clip.lines) ELSE << >>

\* the desktops a probe runs on: the paths that exist, the selection of the
\* file manager (at most one existing path), the form in which the file
\* manager copies a selection, whether xclip and xdotool are installed,
\* and the content of the clipboard
Desks ==
    {[present |-> ps, selected |-> sel, asUri |-> u, tools |-> t, before |-> c] :
        ps \in SUBSET AllPaths,
        sel \in {<< >>} \cup {<< a >> : a \in AllPaths},
        u \in BOOLEAN, t \in BOOLEAN, c \in Contents}

ClipInit ==
    /\ Constructed
    /\ selMgr
    /\ call = NoCall
    /\ result = NoResult
    /\ desk \in {d \in Desks : \A k \in 1 .. Len(d.selected) : d.selected[k] \in d.present}
    /\ clip = desk.before
    /\ probe = [NoProbe EXCEPT !.pc = "save"]

\* 117: old_clipboard = self._run_command([... '-o'])
Clip_save ==
    /\ probe.pc = "save"
    /\ probe' = [probe EXCEPT !.pc = "copy", !.old = ReadClipboard]
    /\ UNCHANGED << call, result, desk, clip >>
    /\ UNCHANGED appVars

\* 120-124: xdotool sends Ctrl+C and the probe sleeps 0.1 s; the file
\* manager copies its selection, if it has one
Clip_copy ==
    /\ probe.pc = "copy"
    /\ clip' = IF desk.tools /\ desk.selected # << >>
               THEN TextClip([k \in 1 .. Len(desk.selected) |->
                                 IF desk.asUri THEN UriLine(desk.selected[k])
                                 ELSE PlainLine(desk.selected[k])])
               ELSE clip
    /\ probe' = [probe EXCEPT !.pc = "read"]
    /\ UNCHANGED << call, result, desk >>
    /\ UNCHANGED appVars

\* 127: clipboard = self._run_command([... '-o'])
Clip_read ==
    /\ probe.pc = "read"
    /\ probe' = [probe EXCEPT !.pc = "restore", !.new = ReadClipboard]
    /\ UNCHANGED << call, result, desk, clip >>
    /\ UNCHANGED appVars

\* 130-138: if old_clipboard: xclip is given old_clipboard on its standard
\* input; an exception (xclip missing) is swallowed
Clip_restore ==
    /\ probe.pc = "restore"
    /\ clip' = IF probe.old # << >> /\ desk.tools THEN TextClip(probe.old) ELSE clip
    /\ probe' = [probe EXCEPT !.pc = "parse"]
    /\ UNCHANGED << call, result, desk >>
    /\ UNCHANGED appVars

\* 145-156: the paths of the lines of a text
RECURSIVE ParseLines(_)
ParseLines(t) ==
    IF t = << >> THEN << >>
    ELSE LET line == Head(t)
         IN  (IF line = BlankLine THEN << >>
              ELSE IF Len(line) = 2 THEN << Unquote(line[2]) >>
              ELSE IF line[1] \in desk.present THEN << line[1] >>
              ELSE << >>) \o ParseLines(Tail(t))

\* 140-158: if not clipboard: return []; otherwise the parsed paths
Clip_parse ==
    /\ probe.pc = "parse"
    /\ probe' = [probe EXCEPT !.pc = "done", !.paths = ParseLines(probe.new)]
    /\ UNCHANGED << call, result, desk, clip >>
    /\ UNCHANGED appVars

ClipNext == Clip_save \/ Clip_copy \/ Clip_read \/ Clip_restore \/ Clip_parse

ClipSpec == ClipInit /\ [][ClipNext]_vars

(* ------------------------------ properties ----------------------------- *)
\* The properties of a handler are stated of a handler that ran alone: it
\* started with no other handler and no exit-watch callback in progress,
\* and until it returned no other thread wrote and no player exited.  last
\* is its record in the state it returns to, last.snap the state it
\* started in.

OnClosePcs == {"cb_tray", "cb_hk"}

\* C1: on_close is called at most once for a player process, never for a
\* process that stop() signalled, and once for a process that ended by
\* itself without a stop() by the time nothing refers to it any more.
C1_OnCloseExactlyOnce ==
    \A p \in Procs :
        /\ proc[p].closes <= 1
        /\ proc[p].sig # "none" => proc[p].closes = 0
        /\ (p \in Collectable /\ proc[p].sig = "none" /\ ~proc[p].stopped)
               => proc[p].closes = 1

\* C2: a play() entered while a player is running has that player stopped
\* by the time its own player is started, and on_close is not called for
\* the player it replaced.
C2_PriorStoppedBeforeNew ==
    \A i \in Threads :
        (th[i].prior # 0 /\ th[i].newp # 0) =>
            /\ proc[th[i].prior].st # "running"
            /\ \A m \in Procs :
                   ~(mon[m].watch = th[i].prior /\ mon[m].pc \in OnClosePcs)

\* C3 as stated: the tray item and the hotkey, each activated while a
\* session is playing, stop the session and start no probe and no player.
C3_SameDecision ==
    (last.kind \in {"hotkey", "tray"} /\ last.snap.playing) =>
        /\ last.res = "closed"
        /\ last.newp = 0

\* C3 as the code has it: the hotkey activated while a session is playing
\* stops it and starts no player; the tray item never closes: whether or
\* not a session is playing it runs the preview, which behind the
\* just-closed guard probes the selection and plays the selected video.
C3_TrayPreviewsHotkeyToggles ==
    /\ (last.kind = "hotkey" /\ last.snap.playing) =>
           /\ last.res = "closed"
           /\ last.newp = 0
           /\ lprocess = 0
    /\ last.kind = "tray" =>
           /\ last.res # "closed"
           /\ last.snap.jc <=> last.res = "guarded"
           /\ last.newp # 0 <=> last.res = "playing"

\* the tray item was activated while a session was playing and a new
\* player was started
C3_Witness ==
    /\ last.kind = "tray"
    /\ last.snap.playing
    /\ last.res = "playing"
    /\ last.newp # last.snap.lp

\* C4: a toggle handled while no session is playing and the guard is not
\* set: when the player was launched, the launched process is tracked and
\* running, the file is the selected one and the tray and the hotkey
\* manager are active; when no video is selected no player is started and
\* the state is the one before.
C4_ToggleStartsPlayback ==
    (last.kind = "hotkey" /\ ~last.snap.playing /\ ~last.snap.jc) =>
        /\ last.res = "playing" =>
               /\ last.newp # 0
               /\ lprocess = last.newp
               /\ is_playing
               /\ is_video_file(PathName(last.f))
               /\ lfile = last.f
               /\ cur = last.f
               /\ trayActive
               /\ hkActive
               /\ icon = "running" => iconActive
        /\ last.res = "noselection" =>
               /\ last.newp = 0
               /\ lprocess = last.snap.lp
               /\ ~is_playing
               /\ cur = last.snap.cur
               /\ trayActive = last.snap.tray
               /\ hkActive = last.snap.hk
               /\ iconActive = last.snap.iconA

\* a toggle found no session playing and started the selected video
C4_Witness ==
    /\ last.kind = "hotkey"
    /\ ~last.snap.playing
    /\ ~last.snap.jc
    /\ last.res = "playing"
    /\ cur = last.f

\* C5: a toggle handled while the guard timer of a close is still
\* sleeping starts no player, and a toggle handled when no guard timer
\* sleeps is not suppressed.
C5_GuardWindow ==
    /\ (last.kind = "hotkey" /\ last.snap.timers > 0) => last.newp = 0
    /\ (last.kind = "hotkey" /\ last.snap.timers = 0) => last.res # "guarded"

\* C6: a navigation signal handled while no tracked player is running
\* launches no player and leaves the coordinator, the tray and the hotkey
\* manager as they were.
C6_NavigateIdleNoOp ==
    (last.kind \in {"up", "down"} /\ ~last.snap.playing) =>
        /\ last.newp = 0
        /\ lprocess = last.snap.lp
        /\ cur = last.snap.cur
        /\ trayActive = last.snap.tray
        /\ iconActive = last.snap.iconA
        /\ hkActive = last.snap.hk

\* C7: when _close_preview or _on_mpv_closed has returned, no player is
\* tracked, no player is running, the coordinator has no current file,
\* the hotkey manager is not active and the tray is idle.
C7_CloseLeavesIdle ==
    last.res \in {"closed", "notified"} =>
        /\ lprocess = 0
        /\ \A p \in Procs : proc[p].st # "running"
        /\ cur = NoFile
        /\ ~hkActive
        /\ ~trayActive
        /\ icon = "running" => ~iconActive

\* C8: a play() that returns False because find_mpv() found no binary
\* leaves the tracked process, the launcher's current file and the
\* running session as they were.
C8_NoBinaryNoSideEffects ==
    last.res = "play_nompv" =>
        /\ lprocess = last.snap.lp
        /\ lfile = last.snap.lf
        /\ is_playing = last.snap.playing

\* C9: a play request whose Popen raised leaves the coordinator's current
\* file, the hotkey manager's flag, the tray and the tracked session as
\* they were.
C9_LaunchFailureKeepsState ==
    last.res = "launchfail" =>
        /\ cur = last.snap.cur
        /\ hkActive = last.snap.hk
        /\ trayActive = last.snap.tray
        /\ lprocess = last.snap.lp
        /\ is_playing = last.snap.playing

\* C10: stop() has untracked the process and cleared the current file
\* before it signals, kills only a process it has sent SIGTERM and waited
\* for, holds a process whenever it goes on to poll it (so that it does
\* not raise), and returns with nothing tracked.
C10_StopOrder ==
    /\ \A p \in Procs : proc[p].sig # "none" => proc[p].stopped /\ lprocess # p
    /\ \A i \in Threads :
           /\ th[i].pc = "st_wait" =>
                  /\ th[i].sp # 0
                  /\ proc[th[i].sp].sig = "term"
           /\ th[i].pc = "st_sig" => th[i].sp # 0
           /\ (th[i].pc \in {"cl_cur", "q_hk"} /\ solo = WTid(i)) =>
                  /\ lprocess = 0
                  /\ lfile = NoFile

\* C11: a stop() entered while no process is tracked returns to its caller
\* in one step, without an exception: the processes, the signals sent to
\* them, the on_close counts, the exit-watch threads and the state of the
\* launcher and of every other object are what they were.  A second stop()
\* after a stop() is such a call.
C11_StopIdleNoOp ==
    [][\A i \in Threads :
          (th[i].pc = "st1" /\ lprocess = 0 /\ th'[i] # th[i]) =>
              /\ th'[i].pc \notin StopPcs
              /\ th'[i].pc \in {th[i].ret, "play_file", "idle"}
              /\ th'[i].pc = "idle" => th[i].ret = "play_find"
              /\ UNCHANGED << mon, proc, lprocess, lfile, cur, justClosed,
                              timers, trayActive, icon, iconActive, hkActive,
                              ctrl, listener, selMgr >>]_vars

\* the stop() of a quit chosen while nothing was tracked has returned
C11_Witness == th[0].pc = "q_hk" /\ solo = WTid(0) /\ snap.lp = 0

\* The properties of the video_utils functions are stated of a call that
\* has returned: call holds its arguments, result what it returned.

\* the sorted videos of the folder of the path passed to a sibling call
Listing == get_video_files_in_directory(TRUE, call.entries)
InListing(c) == \E k \in 1 .. Len(Listing) : Listing[k] = c

\* C12: when the current file is not in the video listing of its folder,
\* get_next_video returns the first video of the listing and
\* get_previous_video the last one, and they return None only when the
\* listing is empty.
C12_AbsentFallsBack ==
    (result.fn \in {"next", "previous"} /\ ~InListing(call.c)) =>
        /\ Listing # << >> =>
               result.val = IF result.fn = "next" THEN Listing[1]
                            ELSE Listing[Len(Listing)]
        /\ result.val = NoFile => Listing = << >>

\* C13: for a current file at place k of the n sorted videos of its
\* folder, get_next_video returns the video after it, the first one when
\* k = n, and get_previous_video the video before it, the last one when
\* k = 1; with one video both return the current file.
C13_StepsWithWraparound ==
    (result.fn \in {"next", "previous"} /\ InListing(call.c)) =>
        LET n == Len(Listing)
            k == CHOOSE j \in 1 .. n : Listing[j] = call.c
        IN  /\ (result.fn = "next" /\ k < n) => result.val = Listing[k + 1]
            /\ (result.fn = "next" /\ k = n) => result.val = Listing[1]
            /\ (result.fn = "previous" /\ k > 1) => result.val = Listing[k - 1]
            /\ (result.fn = "previous" /\ k = 1) => result.val = Listing[n]
            /\ n = 1 => result.val = call.c

\* get_next_video stepped past the last of three videos and
\* get_previous_video would step before the first
C13_Witness ==
    /\ result.fn = "next"
    /\ Len(Listing) = 3
    /\ call.c = Listing[3]
    /\ result.val = Listing[1]

\* mkv, avi, webm, mp4, m4v, mov, wmv, flv, ts, mts, m2ts
ListedExtensions ==
    { << 109, 107, 118 >>, << 97, 118, 105 >>, << 119, 101, 98, 109 >>,
      << 109, 112, 52 >>, << 109, 52, 118 >>, << 109, 111, 118 >>,
      << 119, 109, 118 >>, << 102, 108, 118 >>, << 116, 115 >>,
      << 109, 116, 115 >>, << 109, 50, 116, 115 >> }

\* the extension of a file name: what follows its last dot, when that dot
\* is neither its first nor its last character
Extension(name) ==
    IF LastDot(name) > 1 /\ LastDot(name) < Len(name)
    THEN SubSeq(name, LastDot(name) + 1, Len(name))
    ELSE << >>

\* C14: get_video_files_in_directory returns the regular files of the
\* folder whose extension is listed, each once, in the order of their
\* lower-cased paths; it returns the empty list when the path is not a
\* directory.
C14_ListsVideosSorted ==
    result.fn = "list" =>
        LET s == result.val
            wanted == {e \in call.entries :
                         is_file(e) /\ Lower(Extension(PathName(e))) \in ListedExtensions}
        IN  IF ~call.isDir THEN s = << >>
            ELSE /\ {s[k] : k \in 1 .. Len(s)} = wanted
                 /\ Len(s) = Cardinality(wanted)
                 /\ \A j, k \in 1 .. Len(s) :
                        j < k => LexLeq(Lower(PathName(s[j])), Lower(PathName(s[k])))

\* the folder holds the selectable paths ("a.MKV", "B.mp4", .., a text
\* file) and the listing is the videos among them in that order
C14_Witness ==
    /\ result.fn = "list"
    /\ call.isDir
    /\ call.entries = AllPaths
    /\ result.val = [k \in 1 .. NFiles |-> k]

\* C15: is_video_file is true exactly when the lower-cased extension of
\* the path is listed, and two paths that differ in letter case only get
\* the same answer.
C15_VideoIffListed ==
    result.fn = "is_video" =>
        /\ result.val <=> (Lower(Extension(call.path)) \in ListedExtensions)
        /\ \A name \in SampleNames :
               Lower(name) = Lower(call.path) => (is_video_file(name) <=> result.val)

\* a name with upper-case letters in its suffix was found to be a video
C15_Witness ==
    /\ result.fn = "is_video"
    /\ result.val
    /\ Suffix(call.path) # Lower(Suffix(call.path))

\* C16: a handler for Up, Down or Escape is started only by a key press
\* made while is_preview_active is true, and a press of one of these keys
\* while it is false starts no handler and changes nothing.
C16_NavigationKeysGated ==
    [][/\ \A i \in Workers :
              (th[i].pc = "idle" /\ th'[i].kind \in {"up", "down", "esc"}) =>
                  /\ hkActive
                  /\ th'[i].pc = IF th'[i].kind = "esc" THEN "cl_set" ELSE "nv1"
       /\ \A key \in {"up", "down", "esc"} :
              (~hkActive /\ OnKeyPress(key, TRUE)) => UNCHANGED vars]_vars

\* Up was pressed during a preview and its handler has been started
C16_Witness ==
    \E i \in Workers : th[i].pc = "nv1" /\ th[i].kind = "up" /\ hkActive

\* C17: when a clipboard probe has returned, the clipboard holds what it
\* held when the probe was called.
C17_ClipboardRestored == probe.pc = "done" => clip = desk.before

\* C18: every path a clipboard probe returns exists.
C18_ReturnedPathsExist ==
    probe.pc = "done" =>
        \A k \in 1 .. Len(probe.paths) : probe.paths[k] \in desk.present

\* C19: when the quit handler stops the tray loop, no player is tracked,
\* the player that was tracked has ended and the listener is stopped; the
\* hotkey_manager.stop() and the mpv_launcher.stop() that run() makes after
\* the tray loop find no listener and no tracked player; and when run()
\* has returned no player is tracked and no listener is registered.
C19_TeardownBeforeTrayStops ==
    [][/\ (th[0].pc = "q_icon" /\ th'[0].pc = "run_hk") =>
              /\ ~listener
              /\ lprocess = 0
              /\ snap.lp # 0 => proc[snap.lp].st # "running"
       /\ (th[0].pc = "run_hk" /\ th'[0].pc # "run_hk") => ~listener
       /\ (th[0].pc = "st1" /\ th[0].ret = "exited" /\ th'[0].pc # "st1") =>
              lprocess = 0
       /\ th'[0].pc = "exited" => (lprocess' = 0 /\ ~listener')]_vars

\* C20: a navigation signal handled while a tracked player is running
\* computes the next (Down) or previous (Up) sibling of the file that is
\* playing; when that is another file and the player for it starts, the
\* launcher plays that sibling and it is the current file of the
\* coordinator; when it is the playing file itself, or there is none, the
\* player that was running is still tracked and running and nothing has
\* changed.
C20_NavigatePlaysSibling ==
    (last.kind \in {"up", "down"} /\ last.snap.playing) =>
        /\ last.res \notin {"nocurrent", "crash", "novideo"}
        /\ last.res = "playing" =>
               /\ \E exists \in BOOLEAN, entries \in SUBSET AllPaths :
                      last.f = IF last.kind = "down"
                               THEN get_next_video(last.snap.lf, exists, entries)
                               ELSE get_previous_video(last.snap.lf, exists, entries)
               /\ last.f # last.snap.lf
               /\ cur = last.f
               /\ lfile = last.f
               /\ last.newp # 0
               /\ lprocess = last.newp
               /\ proc[last.newp].st = "running"
        /\ last.res = "nosibling" =>
               /\ last.newp = 0
               /\ lprocess = last.snap.lp
               /\ is_playing
               /\ cur = last.snap.cur
               /\ lfile = last.snap.lf

C22_OnePlayerTracked ==
    /\ Cardinality({p \in Procs : proc[p].st = "running"}) <= 1
    /\ \A p \in Procs :
           proc[p].st = "running" =>
               \/ lprocess = p
               \/ \E i \in Threads :
                      th[i].sp = p /\ th[i].pc \in {"st_clr", "st_file", "st_sig", "st_wait"}

\* C23: the exit-watch thread started by the play() that launched player p
\* waits for p and for no other player, and it never clears the tracked
\* process or the launcher's current file while a player launched after p is
\* the tracked one (a stop() that already untracked p is allowed for).
C23_WatchClearsOwnProcess ==
    [][\A p \in Procs :
          /\ mon'[p].watch \in {0, p}
          /\ (mon[p].pc = "clear" /\ mon'[p].pc = "file") => lprocess \in {0, p}
          /\ (mon[p].pc = "file" /\ mon'[p].pc = "cb_cur") => lprocess \in {0, p}]_vars

\* C24: whenever no handler and no exit-watch callback is in progress, the
\* listener's preview-active flag is set only if a player is tracked and
\* running.
C24_ActiveOnlyWhilePlaying == (Quiescent /\ hkActive) => is_playing

C26_TrayMatchesListener == Quiescent => (trayActive <=> hkActive)

ToggleStarted ==
    \E i \in Workers :
        th[i].pc = "idle" /\ th'[i].pc = "hk1" /\ th'[i].kind = "hotkey"

\* C27: a key press starts a toggle handler exactly when _ctrl_pressed is
\* true and the key is Space or backtick, whether or not is_preview_active
\* is set and before any navigation key is looked at; a press or release of
\* Ctrl starts no handler, and _ctrl_pressed is true after a press of Ctrl
\* and false after a release of Ctrl.
C27_ToggleIffModifierAndBinding ==
    [][/\ \A i \in Workers :
              (th[i].pc = "idle" /\ th'[i].kind = "hotkey") =>
                  /\ ctrl
                  /\ th'[i].pc = "hk1"
                  /\ \E key \in {"space", "backtick"} : OnKeyPress(key, TRUE)
       /\ \A key \in Keys :
              OnKeyPress(key, TRUE) =>
                  (ToggleStarted <=> (ctrl /\ key \in {"space", "backtick"}))
       /\ OnKeyPress("ctrl", TRUE) => (ctrl' /\ UNCHANGED th)
       /\ OnKeyRelease("ctrl", TRUE) => (~ctrl' /\ UNCHANGED th)
       /\ \A key \in Keys \ {"ctrl"} :
              OnKeyRelease(key, TRUE) => UNCHANGED << ctrl, th >>]_vars

\* Ctrl is held, a preview is active, and a press of Space or backtick has
\* started a toggle handler
C27_Witness ==
    \E i \in Workers :
        th[i].pc = "hk1" /\ th[i].kind = "hotkey" /\ ctrl /\ hkActive

\* C28: once the handlers have returned, a set _just_closed is eventually
\* cleared, provided the guard-clearing threads are scheduled.
C28_GuardEventuallyCleared == (justClosed /\ Busy = {}) ~> ~justClosed

====
